---- MODULE Spec2Model ----
(***************************************************************************)
(* The mod updater of src/main.py and src/modrinth_client.py as a state    *)
(* machine.  One run of the script is: get_follows, then the for-loop over *)
(* the followed projects, each iteration walking through the filters, the  *)
(* version request, the selection of versions[0].files[0], the record      *)
(* lookup/creation, the skip-if-present test, the version-change branch    *)
(* and the download.  An uncaught Python exception ends the process        *)
(* (pc = "crashed", fault names the exception); exit() ends it too         *)
(* (pc = "exited").  mods.db and the mods/ directory outlive the process,  *)
(* and the script may be started again.                                    *)
(***************************************************************************)
EXTENDS Integers, Sequences, FiniteSets, TLC

\* ------------------------------------------------------------------ bounds
\* Filenames the remote may name and the mods/ directory may hold: 1..MaxFiles.
MaxFiles == 3

\* ------------------------------------------------------- input universes
Slugs == {"foo", "bar"}
Titles == {"Foo", "Bar"}
Filenames == 1..MaxFiles
Statuses == {200, 404}

\* os.getenv('MINECRAFT_VERSION'), os.getenv('MINECRAFT_INSTALLATION')
game_version == "1.20.1"
installation_type == "client"

\* A followed project as returned by user/snek/follows: the fields the
\* script reads.
Projects ==
    [slug : Slugs,
     title : Titles,
     game_versions : {{"1.19"}, {"1.19", "1.20.1"}},
     client : {"required", "unsupported"}]

\* The lists get_follows may return: followed projects, no slug twice.
FollowLists ==
    {fl \in UNION {[1..k -> Projects] : k \in 0..Cardinality(Slugs)} :
        \A a, b \in DOMAIN fl : a # b => fl[a].slug # fl[b].slug}

\* A file descriptor of a version; the url names the file on the CDN.
FileEntry(f) == [filename |-> f, url |-> f]

\* A version entry: JSON null, or an object with its list of files.
NullVersion == [null |-> TRUE, files |-> <<>>]
Version(fs) == [null |-> FALSE, files |-> fs]

\* The lists project/<slug>/version may return.
VersionLists ==
    {<<>>, <<NullVersion>>, <<Version(<<>>)>>}
        \cup {<<Version(<<FileEntry(f)>>)>> : f \in Filenames}

\* The data of a remote that never changes: its follow list and, per slug,
\* its version list.
Catalogs == [follows : FollowLists, versions : [Slugs -> VersionLists]]

\* Python's None for the values that are a row / a response or None.
None == <<>>

VARIABLES
    pc,         \* position of the script
    fault,      \* the exception that ended the process, "" while none
    follows,    \* main.py:58
    i,          \* index into follows of the loop variable `project` (1-based)
    status,     \* response.status of the last version request, 0 before it
    versions,   \* main.py:68
    filename,   \* main.py:69, 0 while unassigned
    url,        \* main.py:70, 0 while unassigned
    mod,        \* main.py:76: None or <<row>>
    mods,       \* the rows of table Mod in mods.db
    files,      \* the names of the files in mods/
    ops,        \* history: the side effects of the current iteration, in order
    pre,        \* history: mods and files when the current iteration began
    wrote,      \* history: per slug, the file download_mod_file last wrote (0: none)
    prev,       \* history: how the previous run ended, "" in the first run
    remote      \* <<catalog>> while the remote's data is held fixed, None while
                \* it may change between any two requests

vars == <<pc, fault, follows, i, status, versions, filename, url, mod, mods,
          files, ops, pre, wrote, prev, remote>>

locals == <<status, versions, filename, url, mod>>

env == <<wrote, prev, remote>>

Terminal == {"done", "crashed", "exited"}

project == follows[i]

\* ------------------------------------------------------------- functions

\* mod_file_exists with the test made on the bare name instead of mods/<name>:
\* no such file in the working directory.
mod_file_exists_bare_name(file) == FALSE

mod_file_exists(file) == file \in files

\* os.remove: the directory afterwards (the caller handles a missing file).
mod_file_delete(file) == files \ {file}

\* check_game_version with the membership test inverted.
check_game_version_inverted(proj, version) == ~(version \in proj.game_versions)

check_game_version(proj, version) == version \in proj.game_versions

check_installation_type(proj, installation) == proj[installation] # "unsupported"

check_project_versions(ver) == ~(Len(ver) = 0 \/ ver[1].null)

\* make_request: None for a JSON request answered with a status other than
\* 200, the response otherwise.
make_request(binary, st, data) ==
    IF binary = FALSE /\ st # 200
    THEN None
    ELSE <<[status |-> st, data |-> data]>>

\* get_or_none without its where-clause: the first row of the table, if any.
get_or_none_any_row(slug) ==
    IF mods # {}
    THEN <<CHOOSE r \in mods : TRUE>>
    ELSE None

\* Mod.get_or_none(Mod.slug == slug)
get_or_none(slug) ==
    IF \E r \in mods : r.slug = slug
    THEN <<CHOOSE r \in mods : r.slug = slug>>
    ELSE None

\* The unique constraints of table Mod, for a row to insert.
create_conflict(row) ==
    \E r \in mods : r.title = row.title \/ r.slug = row.slug

\* Mod.update(...).where(Mod.slug == slug): the rows afterwards.
update_rows(slug, row) ==
    {IF r.slug = slug THEN row ELSE r : r \in mods}

\* The unique constraints, for that update.
update_conflict(slug, row) ==
    \E r \in mods : r.slug # slug /\ (r.title = row.title \/ r.slug = row.slug)

\* What the remote may answer to user/snek/follows and project/<slug>/version.
FollowAnswers ==
    IF remote = None THEN FollowLists ELSE {remote[1].follows}

VersionAnswers(slug) ==
    IF remote = None THEN VersionLists ELSE {remote[1].versions[slug]}

\* ----------------------------------------------------------------- steps

Crash(exc) ==
    /\ pc' = "crashed"
    /\ fault' = exc

\* mods.db has just been created; mods/ holds whatever the user put there.
InitLocal ==
    /\ pc = "start"
    /\ fault = ""
    /\ follows = <<>>
    /\ i = 0
    /\ status = 0
    /\ versions = <<>>
    /\ filename = 0
    /\ url = 0
    /\ mod = None
    /\ mods = {}
    /\ files \in SUBSET Filenames
    /\ ops = <<>>
    /\ pre = [mods |-> {}, files |-> files]
    /\ wrote = [s \in Slugs |-> 0]
    /\ prev = ""

Init ==
    /\ InitLocal
    /\ remote = None

\* main.py:57-59: follows = client.get_follows()
GetFollows ==
    /\ pc = "start"
    /\ \E st \in Statuses, fl \in FollowAnswers :
        LET response == make_request(FALSE, st, fl) IN
        IF response = None
        THEN /\ Crash("AttributeError")
             /\ UNCHANGED follows
        ELSE /\ follows' = response[1].data
             /\ pc' = "for"
             /\ UNCHANGED fault
    /\ UNCHANGED <<i, locals, mods, files, ops, pre, env>>

\* main.py:60: the next project, or the end of the loop
LoopHead ==
    /\ pc = "for"
    /\ IF i < Len(follows)
       THEN /\ i' = i + 1
            /\ pc' = "filter"
            /\ ops' = <<>>
            /\ pre' = [mods |-> mods, files |-> files]
            /\ status' = 0
            /\ versions' = <<>>
            /\ filename' = 0
            /\ url' = 0
            /\ mod' = None
       ELSE /\ pc' = "done"
            /\ UNCHANGED <<i, ops, pre, locals>>
    /\ UNCHANGED <<fault, follows, mods, files, env>>

\* main.py:61-66
CheckFilters ==
    /\ pc = "filter"
    /\ pc' = IF ~check_game_version(project, game_version) THEN "for"
             ELSE IF ~check_installation_type(project, installation_type) THEN "for"
             ELSE "fetch"
    /\ UNCHANGED <<fault, follows, i, locals, mods, files, ops, pre, env>>

\* main.py:68: versions = client.get_project_versions(project['slug'])
FetchVersions ==
    /\ pc = "fetch"
    /\ ops' = Append(ops, "get_project_versions")
    /\ \E st \in Statuses, vl \in VersionAnswers(project.slug) :
        LET response == make_request(FALSE, st, vl) IN
        /\ status' = st
        /\ IF response = None
           THEN /\ Crash("AttributeError")
                /\ UNCHANGED versions
           ELSE /\ versions' = response[1].data
                /\ pc' = "select"
                /\ UNCHANGED fault
    /\ UNCHANGED <<follows, i, filename, url, mod, mods, files, pre, env>>

\* main.py:69-70: versions[0]['files'][0]
Select ==
    /\ pc = "select"
    /\ IF Len(versions) = 0
       THEN Crash("IndexError") /\ UNCHANGED <<filename, url>>
       ELSE IF versions[1].null
       THEN Crash("TypeError") /\ UNCHANGED <<filename, url>>
       ELSE IF Len(versions[1].files) = 0
       THEN Crash("IndexError") /\ UNCHANGED <<filename, url>>
       ELSE /\ filename' = versions[1].files[1].filename
            /\ url' = versions[1].files[1].url
            /\ pc' = "check"
            /\ UNCHANGED fault
    /\ UNCHANGED <<follows, i, status, versions, mod, mods, files, ops, pre, env>>

\* main.py:72-74
CheckVersions ==
    /\ pc = "check"
    /\ pc' = IF ~check_project_versions(versions) THEN "for" ELSE "record"
    /\ UNCHANGED <<fault, follows, i, locals, mods, files, ops, pre, env>>

\* main.py:76-78: the row is created, `mod` stays what get_or_none returned
LoadOrCreate ==
    /\ pc = "record"
    /\ mod' = get_or_none(project.slug)
    /\ LET row == [title |-> project.title, slug |-> project.slug,
                   filename |-> filename] IN
       IF mod' = None
       THEN IF create_conflict(row)
            THEN /\ Crash("IntegrityError")
                 /\ UNCHANGED <<mods, ops>>
            ELSE /\ mods' = mods \cup {row}
                 /\ ops' = Append(ops, "create")
                 /\ pc' = "exists"
                 /\ UNCHANGED fault
       ELSE /\ pc' = "exists"
            /\ UNCHANGED <<fault, mods, ops>>
    /\ UNCHANGED <<follows, i, status, versions, filename, url, files, pre, env>>

\* main.py:80-82
SkipIfPresent ==
    /\ pc = "exists"
    /\ pc' = IF mod_file_exists(filename) THEN "for" ELSE "change"
    /\ UNCHANGED <<fault, follows, i, locals, mods, files, ops, pre, env>>

\* main.py:84-89
DetectChange ==
    /\ pc = "change"
    /\ IF mod = None
       THEN /\ Crash("AttributeError")
            /\ UNCHANGED <<mods, files, ops>>
       ELSE IF mod[1].filename # filename
       THEN IF ~(mod[1].filename \in files)
            THEN /\ Crash("FileNotFoundError")
                 /\ UNCHANGED <<mods, files, ops>>
            ELSE LET row == [title |-> project.title, slug |-> project.slug,
                             filename |-> filename] IN
                 /\ files' = mod_file_delete(mod[1].filename)
                 /\ IF update_conflict(project.slug, row)
                    THEN /\ Crash("IntegrityError")
                         /\ ops' = Append(ops, "delete")
                         /\ UNCHANGED mods
                    ELSE /\ mods' = update_rows(project.slug, row)
                         /\ ops' = ops \o <<"delete", "update">>
                         /\ pc' = "download"
                         /\ UNCHANGED fault
       ELSE /\ pc' = "download"
            /\ UNCHANGED <<fault, mods, files, ops>>
    /\ UNCHANGED <<follows, i, locals, pre, env>>

\* modrinth_client.py:58-63: the request is made, response.data is printed
\* and exit() ends the process; the open/write of lines 62-63 is never run.
Download ==
    /\ pc = "download"
    /\ \E st \in Statuses :
        LET response == make_request(TRUE, st, url) IN
        /\ ops' = Append(ops, "download")
        /\ IF response = None
           THEN Crash("AttributeError")
           ELSE /\ pc' = "exited"
                /\ fault' = "SystemExit"
    /\ UNCHANGED <<follows, i, locals, mods, files, pre, env>>

\* The script is started again; mods.db and mods/ are what the last run left.
Restart ==
    /\ pc \in Terminal
    /\ pc' = "start"
    /\ fault' = ""
    /\ follows' = <<>>
    /\ i' = 0
    /\ status' = 0
    /\ versions' = <<>>
    /\ filename' = 0
    /\ url' = 0
    /\ mod' = None
    /\ ops' = <<>>
    /\ pre' = [mods |-> mods, files |-> files]
    /\ prev' = pc
    /\ UNCHANGED <<mods, files, wrote, remote>>

Next ==
    \/ GetFollows
    \/ LoopHead
    \/ CheckFilters
    \/ FetchVersions
    \/ Select
    \/ CheckVersions
    \/ LoadOrCreate
    \/ SkipIfPresent
    \/ DetectChange
    \/ Download
    \/ Restart

Spec == Init /\ [][Next]_vars

\* Repeated runs against a remote whose data does not change.
InitSame ==
    /\ InitLocal
    /\ remote \in {<<c>> : c \in Catalogs}

SpecSame == InitSame /\ [][Next]_vars

\* ---------------------------------------------------------------- claims

Range(q) == {q[k] : k \in DOMAIN q}

\* `project` is bound: the loop has entered an iteration of this run.
InLoop == i \in 1..Len(follows)

\* The iteration of `project` is over: control is back at the loop head, or
\* the process has ended.
StepOver == InLoop /\ pc \in {"for"} \cup Terminal

\* The claim's "filtered out", stated on the project's fields.
Filtered(p) ==
    \/ ~(game_version \in p.game_versions)
    \/ p[installation_type] = "unsupported"

RecordOf(t, slug) == {r \in t : r.slug = slug}

\* C1: while and after a filtered-out project is processed, no version
\* request has been made for it, and the record store and mods/ are what
\* they were when its iteration began.
C1_FilteredUntouched ==
    (InLoop /\ Filtered(project)) =>
        /\ ops = <<>>
        /\ mods = pre.mods
        /\ files = pre.files

C1_Witness ==
    /\ pc = "for"
    /\ InLoop
    /\ Filtered(project)
    /\ RecordOf(mods, project.slug) # {}
    /\ files # {}

\* C2: when the desired file was on disk as the project's iteration began,
\* the iteration requests no download, leaves mods/ as it was, and leaves a
\* record that existed for the slug as it was.
C2_SkipIfPresent ==
    (InLoop /\ filename # 0 /\ filename \in pre.files) =>
        /\ ~("download" \in Range(ops))
        /\ ~("delete" \in Range(ops))
        /\ files = pre.files
        /\ RecordOf(pre.mods, project.slug) \subseteq mods
        /\ ~("update" \in Range(ops))

C2_Witness ==
    /\ pc = "for"
    /\ InLoop
    /\ filename # 0
    /\ filename \in pre.files
    /\ \E r \in pre.mods :
        /\ r.slug = project.slug
        /\ r.filename # filename
        /\ r.title # project.title
        /\ r.filename \in files

\* C3: a project whose record names another file than the desired one, the
\* old file on disk and the desired one not: once its iteration is over,
\* the record names the desired file, the old file is gone and the desired
\* file is in mods/.
C3_VersionChange ==
    \A r \in pre.mods :
        (/\ StepOver
         /\ filename # 0
         /\ r.slug = project.slug
         /\ r.filename # filename
         /\ r.filename \in pre.files
         /\ ~(filename \in pre.files)) =>
            /\ \E q \in mods : q.slug = project.slug /\ q.filename = filename
            /\ ~(r.filename \in files)
            /\ filename \in files

\* C4: a project without record and without local file, with
\* versions[0].files[0] = {f, u}: once its iteration is over, a record for
\* its slug names f and f is in mods/.
C4_FirstDownload ==
    (/\ StepOver
     /\ filename # 0
     /\ RecordOf(pre.mods, project.slug) = {}
     /\ ~(filename \in pre.files)) =>
        /\ \E q \in mods : q.slug = project.slug /\ q.filename = filename
        /\ filename \in files
        /\ wrote[project.slug] = filename

\* C5: against a remote whose data does not change, a run that follows a
\* run that ended (at the end of the loop, or in exit()) creates and updates
\* no record, deletes no file and requests no download.
C5_SecondRunNoOp ==
    (remote # None /\ prev \in {"done", "exited"}) =>
        /\ Range(ops) \cap {"create", "update", "delete", "download"} = {}
        /\ mods = pre.mods
        /\ files = pre.files

\* C6: a project that passed the filters and whose version request was
\* answered (status 200) with an empty list or a list whose first entry is
\* null does not end the process with a fault.
C6_EmptyVersionsNoFault ==
    (/\ InLoop
     /\ "get_project_versions" \in Range(ops)
     /\ status = 200
     /\ (Len(versions) = 0 \/ versions[1].null)) =>
        pc # "crashed"

\* C7: a run ends only after the last followed project has been visited.
C7_FaultIsolated ==
    (pc \in Terminal) => (i = Len(follows))

\* C8: at most one record per slug, and each record names the file that
\* was last downloaded and written for its slug.
C8_RecordInvariant ==
    /\ \A a, b \in mods : a.slug = b.slug => a = b
    /\ \A r \in mods : wrote[r.slug] = r.filename

\* C9: a version request answered with a status other than 200 does not
\* end the process with a fault.
C9_VersionsErrorSafe ==
    (/\ InLoop
     /\ "get_project_versions" \in Range(ops)
     /\ status # 200) =>
        pc # "crashed"

\* C10: every step that removes a file from mods/ belongs to a project that
\* passed both filters, for whose slug a record existed when the iteration
\* began, naming another file than the desired one, with the desired file
\* not on disk; the file removed is the one that record named; and no step
\* removes the record of a slug.
C10_DeletionSafety ==
    [][/\ \A r \in mods : RecordOf(mods', r.slug) # {}
       /\ (files \ files' # {}) =>
            /\ InLoop
            /\ ~Filtered(project)
            /\ filename # 0
            /\ ~(filename \in pre.files)
            /\ ~(filename \in files)
            /\ \E r \in pre.mods :
                /\ r.slug = project.slug
                /\ r.filename # filename
                /\ files \ files' = {r.filename}]_vars

C10_Witness ==
    /\ "delete" \in Range(ops)
    /\ files # pre.files
    /\ files # {}
    /\ Cardinality(mods) > 1

====
